---- MODULE Spec2Model ----
(***************************************************************************)
(* Phone2Splat capture server: the per-connection protocol handler         *)
(* (websocket_server.py), the session store and its background disk        *)
(* writer (frame_processor.py).                                            *)
(*                                                                         *)
(* The asyncio event loop runs one handler at a time; a handler is one     *)
(* action.  FrameProcessor.end_session polls the writer queue with         *)
(* time.sleep, which blocks the event loop: while it waits only the        *)
(* writer thread takes steps.                                              *)
(***************************************************************************)
EXTENDS Integers, Sequences, FiniteSets, TLC

\* ------------------------------------------------------------------ bounds
\* frames handed to process_frame before the model stops feeding frames
MaxFrames == 2
\* create_session calls before the model stops creating sessions
MaxSessions == 2

\* wall-clock seconds the model distinguishes (default session ids are per second)
Seconds == {1, 2}

\* websocket connections (handler tasks) that may be open at once
Conns == {1, 2}
\* values of int(time.time() * 1000) % 100000 the model distinguishes
ClientIds == {1, 2}
\* session ids / capture directories: a default id is the clock's second, an
\* explicit id is any string the client sends
SessionIds == Seconds
\* capture timestamps carried by frames (they name the image files)
Timestamps == {1, 2}

VARIABLES
    phase,      \* PhoneSplatServer: "init", "running", "closing" (stop closes the
                \* connections), "join" (stop is in FrameProcessor.stop or in its
                \* end_session), "stopped"
    clock,      \* wall clock, in seconds
    conn,       \* per connection handler: its ClientConnection object
    clients,    \* PhoneSplatServer.clients: client_id -> connection (0: no entry)
    proc,       \* FrameProcessor's fields
    worker,     \* the _save_worker thread: position and item in hand
    disk,       \* capture directories on disk
    wait,       \* an end_session call blocked in its queue poll
    hist,       \* history: facts about past calls the claims speak of (frames fed,
                \* sessions created, the frames process_frame accepted in the
                \* current session and per connection, ...)
    last,       \* the handler that ran last, what it returned and what it sent
    task,       \* a _handle_frame call that the writer thread overtakes inside
                \* process_frame, between the queue.put and the log rows
    val         \* a validate_session run: its input, position and ValidationResult

vars == <<phase, clock, conn, clients, proc, worker, disk, wait, hist, last, task, val>>

\* ------------------------------------------------------------ data model

NoStats == [present |-> FALSE, session_id |-> 0, frame_count |-> 0, latencies |-> <<>>]

SessionStats(sid) ==
    [present |-> TRUE, session_id |-> sid, frame_count |-> 0, latencies |-> <<>>]

\* FramePacket.latency_ms, with received_at the clock's second
LatencyMs(pkt, now) == (now - pkt.ts) * 1000

\* SessionStats.avg_latency_ms averages latencies[-100:]
LatencyWindow == 100

\* faulty variant: the first samples are taken, latencies[:100]
Recent_Oldest(latencies) ==
    SubSeq(latencies, 1, IF Len(latencies) > LatencyWindow THEN LatencyWindow
                         ELSE Len(latencies))

Recent(latencies) ==
    SubSeq(latencies,
           IF Len(latencies) > LatencyWindow THEN Len(latencies) - LatencyWindow + 1 ELSE 1,
           Len(latencies))

RECURSIVE Sum(_)
Sum(samples) == IF samples = <<>> THEN 0 ELSE Head(samples) + Sum(Tail(samples))

\* SessionStats.avg_latency_ms, as the fraction num / den (0.0 without samples)
AvgLatencyMs(stats) ==
    IF stats.latencies # <<>>
    THEN [num |-> Sum(Recent(stats.latencies)), den |-> Len(Recent(stats.latencies))]
    ELSE [num |-> 0, den |-> 1]

ClientConnection(id) ==
    [open |-> TRUE, client_id |-> id, is_streaming |-> FALSE,
     is_paused |-> FALSE, frames_received |-> 0]

NoConnection ==
    [open |-> FALSE, client_id |-> 0, is_streaming |-> FALSE,
     is_paused |-> FALSE, frames_received |-> 0]

EmptyDir ==
    [rgb_dir |-> FALSE, imu_csv |-> <<>>, rgb_txt |-> <<>>, images |-> {},
     intrinsics |-> 0, session_stats |-> -1]

InitProc ==
    [current_session |-> 0, session_path |-> 0, stats |-> NoStats,
     save_queue |-> <<>>, running |-> FALSE,
     imu_file |-> 0, rgb_txt_file |-> 0, intrinsics_saved |-> FALSE]

NoWait == [active |-> FALSE, caller |-> 0, stats |-> NoStats]

NoTask ==
    [active |-> FALSE, c |-> 0,
     pl |-> [b64_ok |-> TRUE, ts |-> 0, imu |-> "empty", intr |-> FALSE]]

\* A session directory as validate_session finds it: the order the frames were
\* accepted in (arrival), the frame files, the positions (in the sorted listing,
\* from 0) of the images whose size differs from the first one's, and the three
\* metadata files.
NoInput ==
    [exists |-> FALSE, rgb_dir |-> FALSE, arrival |-> <<>>, files |-> {},
     odd |-> {}, readable |-> TRUE,
     imu |-> [exists |-> FALSE, ok |-> TRUE, rows |-> <<>>],
     intr |-> [exists |-> FALSE, ok |-> TRUE, complete |-> TRUE, matches |-> TRUE],
     txt |-> [exists |-> FALSE, ok |-> TRUE, lines |-> 0]]

NoValidation ==
    [pc |-> "none", input |-> NoInput, todo |-> <<>>, frames |-> <<>>,
     timestamps |-> <<>>,
     result |-> [is_valid |-> TRUE, quality_score |-> 100, frame_count |-> 0,
                 duration |-> 0, width |-> 0,
                 errors |-> <<>>, warnings |-> <<>>, info |-> <<>>]]

Event(op, c, ret, sent) == [op |-> op, c |-> c, ret |-> ret, sent |-> sent]

Reply(c, type) == [to |-> c, type |-> type]

\* ---------------------------------------------------------------- inputs

\* A decoded JSON frame object, by what the code looks at: whether "frame" is valid
\* base64, whether "timestamp" is a number (0: it is not), the "imu" object (absent or
\* empty, well formed, or one whose accel/gyro/orientation is too short or no
\* list), and whether "camera_intrinsics" is non-empty.
Payloads ==
    [b64_ok : BOOLEAN, ts : {0} \cup Timestamps, imu : {"empty", "ok", "bad"},
     intr : BOOLEAN]

ControlCommand == {"start_session", "end_session", "pause", "resume", "get_status", "ping"}

\* ------------------------------------------------- FrameProcessor (store)
\* The operators below take and return w = [proc |-> ..., disk |-> ...].

CloseFiles(w) ==
    [w EXCEPT !.proc.imu_file = 0, !.proc.rgb_txt_file = 0]

\* open(path, 'w') creates or truncates the file and writes the header line; a log
\* is the sequence of its rows after the header, a row being the timestamp it
\* starts with.  The logs exist exactly when the directory does.
OpenFiles(w) ==
    IF w.proc.session_path = 0 THEN w
    ELSE LET sp == w.proc.session_path
         IN [w EXCEPT !.disk[sp].imu_csv = <<>>, !.disk[sp].rgb_txt = <<>>,
                      !.proc.imu_file = sp, !.proc.rgb_txt_file = sp]

\* session_id 0 stands for None: the id is made from the clock's second.
CreateSession(w, session_id, now) ==
    LET w1 == CloseFiles(w)
        id == IF session_id = 0 THEN now ELSE session_id
        w2 == [w1 EXCEPT !.proc.current_session = id,
                         !.proc.session_path = id,
                         !.disk[id].rgb_dir = TRUE,
                         !.proc.stats = SessionStats(id)]
        w3 == OpenFiles(w2)
    IN [w3 EXCEPT !.proc.intrinsics_saved = FALSE]

\* parse_frame_packet raises exactly when base64.b64decode does.
ParseRaises(payload) == ~payload.b64_ok

\* faulty variant: the queue holds one image and a put on a full queue is lost
Put_Bounded(queue, item) == IF Len(queue) >= 1 THEN queue ELSE Append(queue, item)

\* Queue.put on the unbounded Queue() of line 91: never blocks, never fails
Put(queue, item) == Append(queue, item)

\* faulty variant: the newest row is written first
AppendRow_Prepends(log, ts) == <<ts>> \o log

\* csv writerow / file.write on a stream opened with 'w': the row goes to the end
AppendRow(log, ts) == Append(log, ts)

\* faulty variant: the saved flag is not consulted
SaveIntrinsics_Always(w, pkt) ==
    IF pkt.intr
    THEN [w EXCEPT !.disk[w.proc.session_path].intrinsics = pkt.ts,
                   !.proc.intrinsics_saved = TRUE]
    ELSE w

\* process_frame lines 249-253: intrinsics, once; the record's content stands for
\* the sample it came from
SaveIntrinsics(w, pkt) ==
    IF ~w.proc.intrinsics_saved /\ pkt.intr
    THEN [w EXCEPT !.disk[w.proc.session_path].intrinsics = pkt.ts,
                   !.proc.intrinsics_saved = TRUE]
    ELSE w

\* faulty variant: process_frame goes on without a session
EnsureSession_Skipped(w, now) == w

\* process_frame lines 209-211: no session path, create_session()
EnsureSession(w, now) ==
    IF w.proc.session_path = 0 THEN CreateSession(w, 0, now) ELSE w

\* process_frame up to its queue.put, for a packet whose timestamp is a number:
\* lines 209-226
ProcessFrameEnqueue(w, pkt, now) ==
    LET w0 == EnsureSession(w, now)
        sp == w0.proc.session_path
        \* lines 215-217: count, bytes, last_frame_time
        w1 == [w0 EXCEPT !.proc.stats.frame_count = @ + 1]
        \* line 218: the latency sample
        w1b == [w1 EXCEPT !.proc.stats.latencies = Append(@, LatencyMs(pkt, now))]
        \* line 226: queue the image
    IN  [w1b EXCEPT !.proc.save_queue = Put(@, [path |-> sp, ts |-> pkt.ts])]

\* process_frame after its queue.put: lines 228-259.  Result: [w, ret].
ProcessFrameRows(w2, pkt) ==
    LET \* lines 229-241: the IMU row
        imu_row == w2.proc.imu_file # 0 /\ pkt.imu # "empty"
        w3 == IF imu_row
              THEN [w2 EXCEPT !.disk[w2.proc.imu_file].imu_csv = AppendRow(@, pkt.ts)]
              ELSE w2
        \* lines 244-246: the frame-index row
        w4 == IF w3.proc.rgb_txt_file # 0
              THEN [w3 EXCEPT !.disk[w3.proc.rgb_txt_file].rgb_txt = AppendRow(@, pkt.ts)]
              ELSE w3
        \* lines 249-253: intrinsics
        w5 == SaveIntrinsics(w4, pkt)
    IN  IF imu_row /\ pkt.imu = "bad" THEN [w |-> w2, ret |-> FALSE]
        ELSE [w |-> w5, ret |-> TRUE]

\* process_frame, statement by statement; an exception leaves what was done
\* before it and returns False.  Result: [w, ret].
ProcessFrame(w, pkt, now) ==
    LET w0 == EnsureSession(w, now)
        \* lines 215-217: count, bytes, last_frame_time
        w1 == [w0 EXCEPT !.proc.stats.frame_count = @ + 1]
    IN  \* line 218: latency_ms subtracts the timestamp: TypeError unless a number
        IF pkt.ts = 0 THEN [w |-> w1, ret |-> FALSE]
        ELSE ProcessFrameRows(ProcessFrameEnqueue(w, pkt, now), pkt)

\* get_stats: {} (NoStats) without a session
GetStats(p) == p.stats

\* faulty variant: the poll's test is inverted
QueueDrained_Inverted(p) == p.save_queue # <<>>

\* end_session's poll, line 287: the queue is seen empty
QueueDrained(p) == p.save_queue = <<>>

\* faulty variant: the final stats record is not written
EndSessionFinish_NoStatsFile(w, stats) ==
    LET w1 == CloseFiles(w)
    IN [w1 EXCEPT !.proc.current_session = 0,
                  !.proc.session_path = 0,
                  !.proc.stats = NoStats]

\* end_session after its queue poll: lines 290-308
EndSessionFinish(w, stats) ==
    LET w1 == CloseFiles(w)
        sp == w1.proc.session_path
        w2 == IF sp # 0
              THEN [w1 EXCEPT !.disk[sp].session_stats = stats.frame_count]
              ELSE w1
    IN [w2 EXCEPT !.proc.current_session = 0,
                  !.proc.session_path = 0,
                  !.proc.stats = NoStats]

\* list_sessions: the capture directories (every id of the model stands for a name
\* that starts with "session_"), sorted by id, reverse=True
RECURSIVE Descending(_)
Descending(ids) ==
    IF ids = {} THEN <<>>
    ELSE LET top == CHOOSE i \in ids : \A j \in ids : j <= i
         IN  <<top>> \o Descending(ids \ {top})

ListSessions(d) == Descending({id \in SessionIds : d[id].rgb_dir})

\* --------------------------------------------------------------- messages

Message(body, type, has_frame, command, session_id, payload) ==
    [body |-> body, type |-> type, has_frame |-> has_frame, command |-> command,
     session_id |-> session_id, payload |-> payload]

OkPayload == [b64_ok |-> TRUE, ts |-> 1, imu |-> "ok", intr |-> TRUE]

\* A message body that json.loads rejects ("garbage", or bytes that are no UTF-8), or
\* JSON that is no object, so that data.get raises ("nonobject").
MalformedMessages ==
    {Message(b, "absent", FALSE, "none", 0, OkPayload) : b \in {"garbage", "nonobject"}}

\* Objects with a "frame" key and no "type", over every payload; and the other
\* shapes of object the classification sends to _handle_frame, with one payload.
FrameMessages ==
    {Message("object", "absent", TRUE, "none", 0, pl) : pl \in Payloads}
    \cup {Message("object", t, TRUE, "pause", 0, OkPayload) : t \in {"frame", "control", "other"}}
    \cup {Message("object", t, FALSE, "none", 0, [OkPayload EXCEPT !.imu = "empty"]) :
            t \in {"absent", "frame"}}

ControlMessages ==
    {Message("object", "control", FALSE, cmd, 0, OkPayload) :
        cmd \in (ControlCommand \ {"start_session"}) \cup {"bogus"}}
    \cup {Message("object", "control", FALSE, "start_session", sid, OkPayload) :
            sid \in {0} \cup SessionIds}

OtherMessages == {Message("object", "other", FALSE, "none", 0, OkPayload)}

Messages == MalformedMessages \cup FrameMessages \cup ControlMessages \cup OtherMessages

\* _process_message lines 207-217: "frame", "control" or "unknown"
Classify(m) ==
    IF m.type \in {"absent", "frame"} \/ m.has_frame THEN "frame"
    ELSE IF m.type = "control" THEN "control"
    ELSE "unknown"

\* ------------------------------------------------------------- the server

Init ==
    /\ phase = "init"
    /\ clock = 1
    /\ conn = [c \in Conns |-> NoConnection]
    /\ clients = [i \in ClientIds |-> 0]
    /\ proc = InitProc
    /\ worker = [pc |-> "off", item |-> [path |-> 0, ts |-> 0]]
    /\ disk = [d \in SessionIds |-> EmptyDir]
    /\ wait = NoWait
    /\ hist = [frames |-> 0, creates |-> 0, succ_count |-> 0, prev_session |-> 0,
               pause_cmd |-> [c \in Conns |-> FALSE],
               succ_conn |-> [c \in Conns |-> 0], accepted |-> <<>>]
    /\ last = Event("init", 0, "none", {})
    /\ task = NoTask
    /\ val = NoValidation

World == [proc |-> proc, disk |-> disk]

\* the event loop is free to run a handler
LoopFree == phase \in {"running", "closing"} /\ ~wait.active /\ ~task.active

\* PhoneSplatServer.start: FrameProcessor.start spawns the worker
Start ==
    /\ phase = "init"
    /\ phase' = "running"
    /\ proc' = [proc EXCEPT !.running = TRUE]
    /\ worker' = [worker EXCEPT !.pc = "get"]
    /\ last' = Event("start", 0, "none", {})
    /\ UNCHANGED <<clock, conn, clients, disk, wait, hist>>
    /\ UNCHANGED <<task, val>>

Tick ==
    /\ clock + 1 \in Seconds
    /\ clock' = clock + 1
    /\ last' = Event("tick", 0, "none", {})
    /\ UNCHANGED <<phase, conn, clients, proc, worker, disk, wait, hist>>
    /\ UNCHANGED <<task, val>>

\* _handle_client up to its receive loop: the id comes from the millisecond clock
Connect(c, id) ==
    /\ phase = "running" /\ ~wait.active /\ ~task.active
    /\ ~conn[c].open
    /\ conn' = [conn EXCEPT ![c] = ClientConnection(id)]
    /\ clients' = [clients EXCEPT ![id] = c]
    /\ hist' = [hist EXCEPT !.pause_cmd[c] = FALSE, !.succ_conn[c] = 0]
    /\ last' = Event("connect", c, "none", {Reply(c, "status")})
    /\ UNCHANGED <<phase, clock, proc, worker, disk, wait>>
    /\ UNCHANGED <<task, val>>

\* _handle_client's finally: del self.clients[client_id] (KeyError when the entry
\* is gone already)
Disconnect(c) ==
    /\ LoopFree
    /\ conn[c].open
    /\ LET id == conn[c].client_id
       IN  /\ clients' = [clients EXCEPT ![id] = 0]
           /\ last' = Event("disconnect", c,
                            IF clients[id] = 0 THEN "KeyError" ELSE "none", {})
    /\ conn' = [conn EXCEPT ![c] = NoConnection]
    /\ hist' = [hist EXCEPT !.pause_cmd[c] = FALSE, !.succ_conn[c] = 0]
    /\ UNCHANGED <<phase, clock, proc, worker, disk, wait>>
    /\ UNCHANGED <<task, val>>

\* an acknowledgement every AckEvery frames of a connection
AckEvery == 10

\* The model stops feeding frames and creating sessions at its bounds.
FrameRoom == hist.frames < MaxFrames

SessionRoom == hist.creates < MaxSessions

\* faulty variant: the pause test is missing
Dropped_Never(client) == FALSE

\* _handle_frame, lines 228-229: a paused connection's frame is dropped
Dropped(client) == client.is_paused

\* what the history keeps of a frame whose process_frame returned True
Accepted(pl) == [ts |-> pl.ts, imu |-> pl.imu # "empty", intr |-> pl.intr]

\* faulty variant: the decode error is reported like a protocol error
DropUndecodable_Replies(c, w0, h) ==
    /\ conn' = [conn EXCEPT ![c].is_streaming = TRUE]
    /\ proc' = w0.proc
    /\ disk' = w0.disk
    /\ hist' = h
    /\ last' = Event("frame", c, "decode_error", {Reply(c, "error")})

\* _handle_frame, lines 263-264: parse_frame_packet raised, after lines 232-235
\* had marked the connection streaming and left the store as w0
DropUndecodable(c, w0, h) ==
    /\ conn' = [conn EXCEPT ![c].is_streaming = TRUE]
    /\ proc' = w0.proc
    /\ disk' = w0.disk
    /\ hist' = h
    /\ last' = Event("frame", c, "decode_error", {})

\* _handle_frame
HandleFrame(c, pl) ==
    IF Dropped(conn[c])
    THEN /\ last' = Event("frame", c, "dropped", {})
         /\ UNCHANGED <<phase, clock, conn, clients, proc, worker, disk, wait, hist>>
    ELSE
      LET first   == ~conn[c].is_streaming /\ proc.current_session = 0
          w0      == IF first THEN CreateSession(World, 0, clock) ELSE World
          second  == w0.proc.session_path = 0
          r       == ProcessFrame(w0, pl, clock)
          created == first \/ second
          n       == conn[c].frames_received + 1
          h0      == IF created
                     THEN [hist EXCEPT !.succ_count = 0, !.prev_session = 0,
                                       !.creates = @ + 1, !.accepted = <<>>]
                     ELSE hist
      IN  /\ created => SessionRoom
          /\ IF ParseRaises(pl)
             THEN DropUndecodable(c, w0, IF first THEN h0 ELSE hist)
             ELSE /\ FrameRoom
                  /\ conn' = [conn EXCEPT ![c].is_streaming = TRUE,
                                          ![c].frames_received = n]
                  /\ proc' = r.w.proc
                  /\ disk' = r.w.disk
                  /\ hist' = IF r.ret
                             THEN [h0 EXCEPT !.succ_count = @ + 1, !.frames = @ + 1,
                                             !.succ_conn[c] = @ + 1,
                                             !.accepted = Append(@, Accepted(pl))]
                             ELSE [h0 EXCEPT !.frames = @ + 1]
                  /\ last' = Event("frame", c, IF r.ret THEN "true" ELSE "false",
                                   IF n % AckEvery = 0 THEN {Reply(c, "ack")} ELSE {})
          /\ UNCHANGED <<phase, clock, clients, worker, wait>>

\* _handle_frame as the writer thread sees it: the handler thread up to the
\* queue.put of process_frame (line 226), for a frame that decodes and whose
\* timestamp is a number ...
FrameEnqueue(c, pl) ==
    /\ LoopFree
    /\ conn[c].open /\ ~Dropped(conn[c])
    /\ ~ParseRaises(pl) /\ pl.ts # 0
    /\ FrameRoom
    /\ LET first   == ~conn[c].is_streaming /\ proc.current_session = 0
           w0      == IF first THEN CreateSession(World, 0, clock) ELSE World
           created == first \/ w0.proc.session_path = 0
           w2      == ProcessFrameEnqueue(w0, pl, clock)
       IN  /\ created => SessionRoom
           /\ proc' = w2.proc
           /\ disk' = w2.disk
           /\ hist' = IF created
                      THEN [hist EXCEPT !.succ_count = 0, !.prev_session = 0,
                                        !.creates = @ + 1, !.accepted = <<>>]
                      ELSE hist
    /\ conn' = [conn EXCEPT ![c].is_streaming = TRUE]
    /\ task' = [active |-> TRUE, c |-> c, pl |-> pl]
    /\ last' = Event("frame_enqueue", c, "none", {})
    /\ UNCHANGED <<phase, clock, clients, worker, wait, val>>

\* ... and from there to the end of _handle_frame
FrameFinish ==
    /\ task.active
    /\ LET c == task.c
           r == ProcessFrameRows(World, task.pl)
           n == conn[c].frames_received + 1
       IN  /\ proc' = r.w.proc
           /\ disk' = r.w.disk
           /\ conn' = [conn EXCEPT ![c].frames_received = n]
           /\ hist' = IF r.ret
                      THEN [hist EXCEPT !.succ_count = @ + 1, !.frames = @ + 1,
                                        !.succ_conn[c] = @ + 1,
                                        !.accepted = Append(@, Accepted(task.pl))]
                      ELSE [hist EXCEPT !.frames = @ + 1]
           /\ last' = Event("frame", c, IF r.ret THEN "true" ELSE "false",
                            IF n % AckEvery = 0 THEN {Reply(c, "ack")} ELSE {})
    /\ task' = NoTask
    /\ UNCHANGED <<phase, clock, clients, worker, wait, val>>

\* _handle_control, one branch per command
StartSession(c, session_id) ==
    LET w == CreateSession(World, session_id, clock)
    IN  /\ SessionRoom
        /\ proc' = w.proc
        /\ disk' = w.disk
        /\ conn' = [conn EXCEPT ![c].is_streaming = TRUE, ![c].is_paused = FALSE]
        /\ hist' = [hist EXCEPT !.succ_count = 0, !.creates = @ + 1,
                                !.prev_session = proc.current_session,
                                !.accepted = <<>>]
        /\ last' = Event("start_session", c, "none", {Reply(c, "status")})
        /\ UNCHANGED <<phase, clock, clients, worker, wait>>

\* what an end_session call that returns has done: ended the current session, or
\* found none
EndResult(p) == IF p.current_session = 0 THEN "no_session" ELSE "ended"

\* end_session: the stats are read first (line 284), then the queue is polled; with
\* the queue empty the call runs to its end, otherwise it blocks the event loop.
EndSession(c) ==
    IF QueueDrained(proc)
    THEN LET w == EndSessionFinish(World, GetStats(proc))
         IN  /\ proc' = w.proc
             /\ disk' = w.disk
             /\ conn' = [conn EXCEPT ![c].is_streaming = FALSE]
             /\ hist' = [hist EXCEPT !.succ_count = 0, !.accepted = <<>>]
             /\ last' = Event("end_session", c, EndResult(proc), {Reply(c, "status")})
             /\ UNCHANGED <<phase, clock, clients, worker, wait>>
    ELSE /\ wait' = [active |-> TRUE, caller |-> c, stats |-> GetStats(proc)]
         /\ last' = Event("end_session", c, "waiting", {})
         /\ UNCHANGED <<phase, clock, conn, clients, proc, worker, disk, hist>>

Pause(c) ==
    /\ conn' = [conn EXCEPT ![c].is_paused = TRUE]
    /\ hist' = [hist EXCEPT !.pause_cmd[c] = TRUE]
    /\ last' = Event("pause", c, "none", {Reply(c, "status")})
    /\ UNCHANGED <<phase, clock, clients, proc, worker, disk, wait>>

Resume(c) ==
    /\ conn' = [conn EXCEPT ![c].is_paused = FALSE]
    /\ hist' = [hist EXCEPT !.pause_cmd[c] = FALSE]
    /\ last' = Event("resume", c, "none", {Reply(c, "status")})
    /\ UNCHANGED <<phase, clock, clients, proc, worker, disk, wait>>

\* faulty variant: the command also marks the connection streaming
ReplyOnly_MarksStreaming(c, op, type) ==
    /\ last' = Event(op, c, "none", {Reply(c, type)})
    /\ conn' = [conn EXCEPT ![c].is_streaming = TRUE]
    /\ UNCHANGED <<phase, clock, clients, proc, worker, disk, wait, hist>>

\* the branches that only reply: get_status, ping, and the unknown command's
\* _send_error
ReplyOnly(c, op, type) ==
    /\ last' = Event(op, c, "none", {Reply(c, type)})
    /\ UNCHANGED <<phase, clock, conn, clients, proc, worker, disk, wait, hist>>

\* faulty variant: a command that is not known is a protocol violation that ends the
\* connection
HandleControl_UnknownCloses(c, m) ==
    CASE m.command = "start_session" -> StartSession(c, m.session_id)
      [] m.command = "end_session"   -> EndSession(c)
      [] m.command = "pause"         -> Pause(c)
      [] m.command = "resume"        -> Resume(c)
      [] m.command = "get_status"    -> ReplyOnly(c, "get_status", "status")
      [] m.command = "ping"          -> ReplyOnly(c, "ping", "ack")
      [] OTHER -> /\ last' = Event("unknown_command", c, "none", {Reply(c, "error")})
                  /\ conn' = [conn EXCEPT ![c] = NoConnection]
                  /\ clients' = [clients EXCEPT ![conn[c].client_id] = 0]
                  /\ UNCHANGED <<phase, clock, proc, worker, disk, wait, hist>>

HandleControl(c, m) ==
    CASE m.command = "start_session" -> StartSession(c, m.session_id)
      [] m.command = "end_session"   -> EndSession(c)
      [] m.command = "pause"         -> Pause(c)
      [] m.command = "resume"        -> Resume(c)
      [] m.command = "get_status"    -> ReplyOnly(c, "get_status", "status")
      [] m.command = "ping"          -> ReplyOnly(c, "ping", "ack")
      [] OTHER                       -> ReplyOnly(c, "unknown_command", "error")

\* faulty variant: the decoding error escapes _process_message: _handle_client reports it
\* and its finally clause drops the connection
HandleMalformed_Uncaught(c) ==
    /\ last' = Event("malformed", c, "none", {Reply(c, "error")})
    /\ conn' = [conn EXCEPT ![c] = NoConnection]
    /\ clients' = [clients EXCEPT ![conn[c].client_id] = 0]
    /\ UNCHANGED <<phase, clock, proc, worker, disk, wait, hist>>

\* json.JSONDecodeError, or any other exception of the decoding: _send_error
HandleMalformed(c) == ReplyOnly(c, "malformed", "error")

\* _process_message
ProcessMessage(c, m) ==
    /\ LoopFree
    /\ conn[c].open
    /\ IF m.body # "object" THEN HandleMalformed(c)
       ELSE CASE Classify(m) = "frame"   -> HandleFrame(c, m.payload)
              [] Classify(m) = "control" -> HandleControl(c, m)
              [] OTHER -> /\ last' = Event("unknown_type", c, "none", {})
                          /\ UNCHANGED <<phase, clock, conn, clients, proc, worker,
                                         disk, wait, hist>>
    /\ UNCHANGED <<task, val>>

\* The blocked end_session (of a control command, or of stop: caller 0) sees the
\* queue empty and returns to its caller: _handle_control lines 285-292, or the end
\* of stop.
EndSessionReturn ==
    /\ wait.active
    /\ QueueDrained(proc)
    /\ LET w == EndSessionFinish(World, wait.stats)
       IN  /\ proc' = w.proc
           /\ disk' = w.disk
    /\ IF wait.caller # 0
       THEN /\ conn' = [conn EXCEPT ![wait.caller].is_streaming = FALSE]
            /\ phase' = phase
            /\ last' = Event("end_session", wait.caller, EndResult(proc),
                             {Reply(wait.caller, "status")})
       ELSE /\ conn' = conn
            /\ phase' = "stopped"
            /\ last' = Event("stop_end", 0, EndResult(proc), {})
    /\ hist' = [hist EXCEPT !.succ_count = 0, !.accepted = <<>>]
    /\ wait' = NoWait
    /\ UNCHANGED <<clock, clients, worker>>
    /\ UNCHANGED <<task, val>>

\* ------------------------------------------------------------- shutdown

\* PhoneSplatServer.stop, lines 128-144: tell every registered client and close it
StopBegin ==
    /\ phase = "running" /\ ~wait.active /\ ~task.active
    /\ phase' = "closing"
    /\ last' = Event("stop", 0, "none",
                     {Reply(clients[i], "status") : i \in {j \in ClientIds : clients[j] # 0}})
    /\ UNCHANGED <<clock, conn, clients, proc, worker, disk, wait, hist>>
    /\ UNCHANGED <<task, val>>

\* lines 147-152 and FrameProcessor.stop line 109: the handlers are gone, the
\* worker is told to stop
StopProcessor ==
    /\ phase = "closing" /\ ~wait.active
    /\ \A c \in Conns : ~conn[c].open
    /\ phase' = "join"
    /\ proc' = [proc EXCEPT !.running = FALSE]
    /\ last' = Event("stop_processor", 0, "none", {})
    /\ UNCHANGED <<clock, conn, clients, worker, disk, wait, hist>>
    /\ UNCHANGED <<task, val>>

\* FrameProcessor.stop lines 110-112 (join returns when the worker has exited, or
\* after 5 s with the worker still in a write), then stop's lines 155-156
StopJoin ==
    /\ phase = "join" /\ ~wait.active
    /\ worker.pc \in {"exited", "write"}
    /\ LET w1 == CloseFiles(World)
       IN  IF w1.proc.current_session = 0
           THEN /\ proc' = w1.proc /\ disk' = w1.disk
                /\ phase' = "stopped"
                /\ last' = Event("stop_join", 0, "no_session", {})
                /\ UNCHANGED <<wait, hist>>
           ELSE IF QueueDrained(w1.proc)
           THEN LET w2 == EndSessionFinish(w1, GetStats(w1.proc))
                IN  /\ proc' = w2.proc /\ disk' = w2.disk
                    /\ phase' = "stopped"
                    /\ hist' = [hist EXCEPT !.succ_count = 0, !.accepted = <<>>]
                    /\ last' = Event("stop_join", 0, "ended", {})
                    /\ UNCHANGED wait
           ELSE /\ proc' = w1.proc /\ disk' = w1.disk
                /\ phase' = "join"
                /\ wait' = [active |-> TRUE, caller |-> 0, stats |-> GetStats(w1.proc)]
                /\ last' = Event("stop_join", 0, "waiting", {})
                /\ UNCHANGED hist
    /\ UNCHANGED <<clock, conn, clients, worker>>
    /\ UNCHANGED <<task, val>>

\* ------------------------------------------------------ the writer thread

\* _save_worker: the worker is past the while test, in queue.get
WorkerGet ==
    /\ worker.pc = "get"
    /\ proc.save_queue # <<>>
    /\ worker' = [pc |-> "write", item |-> Head(proc.save_queue)]
    /\ proc' = [proc EXCEPT !.save_queue = Tail(@)]
    /\ last' = Event("worker_get", 0, "none", {})
    /\ UNCHANGED <<phase, clock, conn, clients, disk, wait, hist>>
    /\ UNCHANGED <<task, val>>

\* faulty variant: the file's directory is that of the session current at the write
WorkerWrite_IntoCurrent ==
    /\ worker.pc = "write"
    /\ LET path == IF proc.session_path # 0 THEN proc.session_path
                   ELSE worker.item.path
       IN  disk' = [disk EXCEPT ![path].images = @ \cup {worker.item.ts}]
    /\ worker' = [pc |-> IF proc.running THEN "get" ELSE "exited",
                  item |-> [path |-> 0, ts |-> 0]]
    /\ last' = Event("worker_write", 0, "none", {})
    /\ UNCHANGED <<phase, clock, conn, clients, proc, wait, hist>>
    /\ UNCHANGED <<task, val>>

\* the write of lines 123-124, then the while test
WorkerWrite ==
    /\ worker.pc = "write"
    /\ disk' = [disk EXCEPT ![worker.item.path].images = @ \cup {worker.item.ts}]
    /\ worker' = [pc |-> IF proc.running THEN "get" ELSE "exited",
                  item |-> [path |-> 0, ts |-> 0]]
    /\ last' = Event("worker_write", 0, "none", {})
    /\ UNCHANGED <<phase, clock, conn, clients, proc, wait, hist>>
    /\ UNCHANGED <<task, val>>

\* faulty variant: the exception ends the thread
WorkerWriteFails_Dies ==
    /\ worker.pc = "write"
    /\ worker' = [pc |-> "exited", item |-> [path |-> 0, ts |-> 0]]
    /\ last' = Event("worker_write_error", 0, "none", {})
    /\ UNCHANGED <<phase, clock, conn, clients, proc, disk, wait, hist>>
    /\ UNCHANGED <<task, val>>

\* open or write raises (lines 123-124): the except clause of lines 128-129 prints
\* the error, then the while test
WorkerWriteFails ==
    /\ worker.pc = "write"
    /\ worker' = [pc |-> IF proc.running THEN "get" ELSE "exited",
                  item |-> [path |-> 0, ts |-> 0]]
    /\ last' = Event("worker_write_error", 0, "none", {})
    /\ UNCHANGED <<phase, clock, conn, clients, proc, disk, wait, hist>>
    /\ UNCHANGED <<task, val>>

\* the while test fails (after a get that timed out, or with items still queued)
WorkerExit ==
    /\ worker.pc = "get"
    /\ ~proc.running
    /\ worker' = [worker EXCEPT !.pc = "exited"]
    /\ last' = Event("worker_exit", 0, "none", {})
    /\ UNCHANGED <<phase, clock, conn, clients, proc, disk, wait, hist>>
    /\ UNCHANGED <<task, val>>

\* ------------------------------------------------- the validation engine
\* validate_capture.py.  Times are in tenths of a second.

\* config.py: MIN_FRAMES; MAX_FRAME_GAP (0.5 s), MAX_FRAME_GAP_ERROR (2.0 s) and
\* MIN_DURATION (3.0 s), in tenths
MinFrames == 30

MaxFrameGap == 5

MaxFrameGapError == 20

MinDuration == 30

\* ValidationResult(session_id): the fields the checks read or write
ValidationResult == NoValidation.result

Issue(kind, tag, penalty) == [kind |-> kind, tag |-> tag, penalty |-> penalty]

\* max(0, score - penalty)
Floored(score, penalty) == IF score - penalty < 0 THEN 0 ELSE score - penalty

\* faulty variant: is_valid is left alone
AddError_StaysValid(r, issue) ==
    [r EXCEPT !.errors = Append(@, issue),
              !.quality_score = Floored(@, issue.penalty)]

AddError(r, issue) ==
    [r EXCEPT !.errors = Append(@, issue),
              !.quality_score = Floored(@, issue.penalty),
              !.is_valid = FALSE]

\* faulty variant: the score is not floored
AddWarning_NoFloor(r, issue) ==
    [r EXCEPT !.warnings = Append(@, issue),
              !.quality_score = @ - issue.penalty]

AddWarning(r, issue) ==
    [r EXCEPT !.warnings = Append(@, issue),
              !.quality_score = Floored(@, issue.penalty)]

AddInfo(r, issue) == [r EXCEPT !.info = Append(@, issue)]

\* An image file is an integer: f >= 0 is the file the store names "%.6f.jpg" of
\* the timestamp f; f < 0 is a file whose stem is not a number (the -f'th of them).
\* Its name is given as the characters that order it: the digits of the seconds,
\* the point (-1: it sorts below the digits) and the tenths, the five zeros and
\* the extension being the same in every name; a stem that is not a number
\* starts with a letter, above the digits.
RECURSIVE Digits(_)
Digits(n) == IF n < 10 THEN <<n>> ELSE Digits(n \div 10) \o <<n % 10>>

FrameName(f) ==
    IF f < 0 THEN <<10 - f>> ELSE Digits(f \div 10) \o <<-1, f % 10>>

\* parse_timestamp: float(stem), 0.0 on ValueError
ParseTimestamp(f) == IF f < 0 THEN 0 ELSE f

\* the order of sorted() on paths: character by character
RECURSIVE NameBefore(_, _)
NameBefore(a, b) ==
    IF a = <<>> THEN b # <<>>
    ELSE IF b = <<>> THEN FALSE
    ELSE IF Head(a) # Head(b) THEN Head(a) < Head(b)
    ELSE NameBefore(Tail(a), Tail(b))

\* sorted(rgb_dir.glob("*.jpg")), each file given by its timestamp
RECURSIVE SortedFrames(_)
SortedFrames(files) ==
    IF files = {} THEN <<>>
    ELSE LET f == CHOOSE x \in files :
                    \A y \in files \ {x} : NameBefore(FrameName(x), FrameName(y))
         IN  <<f>> \o SortedFrames(files \ {f})

\* faulty variant: the parsed value is kept whatever it is
PositiveStamps_KeepsAll(frames) ==
    [i \in 1..Len(frames) |-> ParseTimestamp(frames[i])]

\* parse_timestamp of every frame, those that are > 0 kept
PositiveStamps(frames) ==
    SelectSeq([i \in 1..Len(frames) |-> ParseTimestamp(frames[i])],
              LAMBDA ts : ts > 0)

\* validate_session, section by section.  Each operator takes the run v (the
\* record of variable val) and gives it back with the section's issues, in the
\* order the code raises them, in todo and the next section in pc.
Return(v, issues) == [v EXCEPT !.todo = issues, !.pc = "done"]

Goto(v, issues, pc) == [v EXCEPT !.todo = issues, !.pc = pc]

\* lines 95-100
CheckExists(v) ==
    IF ~v.input.exists THEN Return(v, <<Issue("error", "no_session", 100)>>)
    ELSE Goto(v, <<>>, "frames")

\* faulty variant: the run goes on after the error for an empty image directory
CheckFrames_GoesOn(v) ==
    IF ~v.input.rgb_dir THEN Return(v, <<Issue("error", "no_rgb_dir", 100)>>)
    ELSE LET frames == SortedFrames(v.input.files)
             v1 == [v EXCEPT !.frames = frames, !.result.frame_count = Len(frames)]
         IN  Goto(v1, IF Len(frames) = 0
                      THEN <<Issue("error", "no_frames", 100)>>
                      ELSE IF Len(frames) < MinFrames
                      THEN <<Issue("error", "too_few_frames", 30)>> ELSE <<>>,
                  "timestamps")

\* lines 111-123
CheckFrames(v) ==
    IF ~v.input.rgb_dir THEN Return(v, <<Issue("error", "no_rgb_dir", 100)>>)
    ELSE LET frames == SortedFrames(v.input.files)
             v1 == [v EXCEPT !.frames = frames, !.result.frame_count = Len(frames)]
         IN  IF Len(frames) = 0
             THEN Return(v1, <<Issue("error", "no_frames", 100)>>)
             ELSE Goto(v1, IF Len(frames) < MinFrames
                           THEN <<Issue("error", "too_few_frames", 30)>> ELSE <<>>,
                       "timestamps")

\* lines 125-143
CheckTimestamps(v) ==
    LET timestamps == PositiveStamps(v.frames)
        v1 == [v EXCEPT !.timestamps = timestamps]
    IN  IF Len(timestamps) < 2
        THEN Return(v1, <<Issue("error", "no_timestamps", 50)>>)
        ELSE LET duration == timestamps[Len(timestamps)] - timestamps[1]
             IN  Goto([v1 EXCEPT !.result.duration = duration],
                      IF duration < MinDuration
                      THEN <<Issue("error", "too_short", 20)>> ELSE <<>>,
                      "gaps")

Gap(timestamps, i) == timestamps[i + 1] - timestamps[i]

\* faulty variant: a gap over the hard threshold is not counted in large_gaps
GapIssues_SoftOnly(timestamps) ==
    LET steps == 1..(Len(timestamps) - 1)
        hard == {i \in steps : Gap(timestamps, i) > MaxFrameGapError}
        large_gaps == {i \in steps : Gap(timestamps, i) > MaxFrameGap} \ hard
    IN  [j \in 1..Cardinality(hard) |-> Issue("warning", "large_gap", 5)]
        \o (IF large_gaps # {} THEN <<Issue("warning", "frame_gaps", 5)>> ELSE <<>>)

\* lines 145-168: a warning inside the loop for every gap over the hard threshold,
\* then one for the count of the gaps over the soft one
GapIssues(timestamps) ==
    LET steps == 1..(Len(timestamps) - 1)
        hard == {i \in steps : Gap(timestamps, i) > MaxFrameGapError}
        large_gaps == hard \cup {i \in steps : Gap(timestamps, i) > MaxFrameGap}
    IN  [j \in 1..Cardinality(hard) |-> Issue("warning", "large_gap", 5)]
        \o (IF large_gaps # {} THEN <<Issue("warning", "frame_gaps", 5)>> ELSE <<>>)

CheckGaps(v) == Goto(v, GapIssues(v.timestamps), "monotonic")

\* line 171
IsMonotonic(timestamps) ==
    \A i \in 1..(Len(timestamps) - 1) : timestamps[i] <= timestamps[i + 1]

\* lines 170-173
CheckMonotonic(v) ==
    Goto(v, IF ~IsMonotonic(v.timestamps)
            THEN <<Issue("error", "not_monotonic", 30)>> ELSE <<>>,
         "images")

\* lines 179-201; an unreadable directory fails at the first Image.open
CheckImages(v) ==
    LET n == Len(v.frames)
        sample_indices == {n \div 4, n \div 2, (3 * n) \div 4}
    IN  IF ~v.input.readable
        THEN Goto(v, <<Issue("error", "unreadable_images", 20)>>, "imu")
        ELSE Goto([v EXCEPT !.result.width = 1],
                  (IF n > 1 /\ (n - 1) \in v.input.odd
                   THEN <<Issue("warning", "resolution_changed", 10)>> ELSE <<>>)
                  \o (IF n > 20 /\ sample_indices \cap v.input.odd # {}
                      THEN <<Issue("warning", "resolution_inconsistent", 5)>>
                      ELSE <<>>),
                  "imu")

\* lines 207-247; a file that cannot be read fails at open
CheckImu(v) ==
    LET imu == v.input.imu
        rows == imu.rows
        stamps == {rows[i] : i \in 1..Len(rows)}
        imu_start == CHOOSE x \in stamps : \A y \in stamps : x <= y
        imu_end == CHOOSE x \in stamps : \A y \in stamps : y <= x
        frame_start == v.timestamps[1]
        frame_end == v.timestamps[Len(v.timestamps)]
        issues ==
            IF ~imu.exists THEN <<Issue("warning", "no_imu_file", 15)>>
            ELSE IF ~imu.ok THEN <<Issue("warning", "imu_unreadable", 10)>>
            ELSE IF Len(rows) = 0 THEN <<Issue("warning", "imu_empty", 10)>>
            ELSE (IF Len(rows) < v.result.frame_count
                  THEN <<Issue("warning", "low_imu_rate", 5)>> ELSE <<>>)
                 \o (IF imu_start > frame_start + 10
                     THEN <<Issue("warning", "imu_starts_late", 5)>> ELSE <<>>)
                 \o (IF imu_end < frame_end - 10
                     THEN <<Issue("warning", "imu_ends_early", 5)>> ELSE <<>>)
    IN  Goto(v, issues, "intrinsics")

\* lines 253-277
CheckIntrinsics(v) ==
    LET intr == v.input.intr
        issues ==
            IF ~intr.exists THEN <<Issue("warning", "no_intrinsics", 15)>>
            ELSE IF ~intr.ok THEN <<Issue("warning", "intrinsics_unreadable", 10)>>
            ELSE (IF ~intr.complete
                  THEN <<Issue("warning", "missing_fields", 5)>> ELSE <<>>)
                 \o (IF v.result.width > 0 /\ ~intr.matches
                     THEN <<Issue("warning", "intrinsics_resolution", 10)>>
                     ELSE <<>>)
    IN  Goto(v, issues, "rgb_txt")

\* lines 283-295
CheckRgbTxt(v) ==
    LET txt == v.input.txt
        issues ==
            IF ~txt.exists THEN <<Issue("warning", "no_rgb_txt", 5)>>
            ELSE IF ~txt.ok THEN <<Issue("warning", "rgb_txt_unreadable", 5)>>
            ELSE IF txt.lines # v.result.frame_count
                 THEN <<Issue("warning", "rgb_txt_entries", 5)>> ELSE <<>>
    IN  Goto(v, issues, "recommend")

\* lines 301-311; avg_fps is frame_count / duration_sec when the duration is
\* positive and 0.0 otherwise, and the duration is in tenths here
Recommend(v) ==
    LET r == v.result
    IN  Return(v,
            (IF r.duration <= 0 \/ 10 * r.frame_count < 8 * r.duration
             THEN <<Issue("info", "low_fps", 0)>> ELSE <<>>)
            \o (IF r.duration > 0 /\ 10 * r.frame_count > 20 * r.duration
                THEN <<Issue("info", "high_fps", 0)>> ELSE <<>>)
            \o (IF r.frame_count > 500
                THEN <<Issue("info", "large_capture", 0)>> ELSE <<>>)
            \o (IF r.duration < 100
                THEN <<Issue("info", "short_capture", 0)>> ELSE <<>>))

Section(v) ==
    CASE v.pc = "exists" -> CheckExists(v)
      [] v.pc = "frames" -> CheckFrames(v)
      [] v.pc = "timestamps" -> CheckTimestamps(v)
      [] v.pc = "gaps" -> CheckGaps(v)
      [] v.pc = "monotonic" -> CheckMonotonic(v)
      [] v.pc = "images" -> CheckImages(v)
      [] v.pc = "imu" -> CheckImu(v)
      [] v.pc = "intrinsics" -> CheckIntrinsics(v)
      [] v.pc = "rgb_txt" -> CheckRgbTxt(v)
      [] v.pc = "recommend" -> Recommend(v)

\* add_error, add_warning or add_info, as the issue's kind says
Raise(r, issue) ==
    CASE issue.kind = "error" -> AddError(r, issue)
      [] issue.kind = "warning" -> AddWarning(r, issue)
      [] issue.kind = "info" -> AddInfo(r, issue)

\* Every handler, over every connection and every message.
Next ==
    \/ Start
    \/ Tick
    \/ \E c \in Conns, id \in ClientIds : Connect(c, id)
    \/ \E c \in Conns : Disconnect(c)
    \/ \E c \in Conns, m \in Messages : ProcessMessage(c, m)
    \/ EndSessionReturn
    \/ StopBegin
    \/ StopProcessor
    \/ StopJoin
    \/ WorkerGet
    \/ WorkerWrite
    \/ WorkerWriteFails
    \/ WorkerExit

Spec == Init /\ [][Next]_vars

\* The session store under one connection that streams frames of every shape and
\* starts and ends sessions, on a server that is not shut down.
StoreMessages ==
    {m \in FrameMessages : m.payload.ts \in {0, 1}}
    \cup {m \in ControlMessages : m.command \in {"start_session", "end_session"}}

NextStore ==
    \/ Start
    \/ Tick
    \/ Connect(1, 1)
    \/ Disconnect(1)
    \/ \E m \in StoreMessages : ProcessMessage(1, m)
    \/ EndSessionReturn
    \/ WorkerGet
    \/ WorkerWrite

SpecStore == Init /\ [][NextStore]_vars

\* Shutdown: one connection streams well-formed frames and ends sessions, and the
\* server is stopped at any moment.
ShutdownMessages ==
    {Message("object", "absent", TRUE, "none", 0, OkPayload)}
    \cup {m \in ControlMessages :
            m.command \in {"start_session", "end_session"} /\ m.session_id = 0}

NextShutdown ==
    \/ Start
    \/ Connect(1, 1)
    \/ Disconnect(1)
    \/ \E m \in ShutdownMessages : ProcessMessage(1, m)
    \/ EndSessionReturn
    \/ StopBegin
    \/ StopProcessor
    \/ StopJoin
    \/ WorkerGet
    \/ WorkerWrite
    \/ WorkerExit

SpecShutdown == Init /\ [][NextShutdown]_vars

\* The protocol: two connections that stream frames, start, end, pause and resume,
\* and send bodies that are no JSON object.
ProtocolMessages ==
    MalformedMessages
    \cup {Message("object", "absent", TRUE, "none", 0, pl) :
            pl \in {OkPayload, [OkPayload EXCEPT !.b64_ok = FALSE]}}
    \cup {m \in ControlMessages :
            /\ m.command \in {"start_session", "end_session", "pause", "resume"}
            /\ m.session_id = 0}

NextProtocol ==
    \/ Start
    \/ \E c \in Conns : Connect(c, c)
    \/ \E c \in Conns : Disconnect(c)
    \/ \E c \in Conns, m \in ProtocolMessages : ProcessMessage(c, m)
    \/ EndSessionReturn
    \/ WorkerGet
    \/ WorkerWrite

SpecProtocol == Init /\ [][NextProtocol]_vars

\* Connections: two connections come and go, with ids as the millisecond clock
\* gives them, while frames stream into a session.
ConnectionMessages ==
    {Message("object", "absent", TRUE, "none", 0, OkPayload)}
    \cup {m \in ControlMessages : m.command = "end_session"}

NextConnections ==
    \/ Start
    \/ \E c \in Conns, id \in ClientIds : Connect(c, id)
    \/ \E c \in Conns : Disconnect(c)
    \/ \E c \in Conns, m \in ConnectionMessages : ProcessMessage(c, m)
    \/ EndSessionReturn
    \/ WorkerGet
    \/ WorkerWrite

SpecConnections == Init /\ [][NextConnections]_vars

\* Commands: two connections send every kind of control command, and objects of
\* every classification: with and without a "frame" key, with and without a type.
CommandMessages ==
    {m \in FrameMessages : m.payload \in {OkPayload, [OkPayload EXCEPT !.imu = "empty"]}}
    \cup {m \in ControlMessages :
            /\ m.command \in {"start_session", "pause", "get_status", "ping", "bogus"}
            /\ m.session_id = 0}
    \cup OtherMessages

NextCommands ==
    \/ Start
    \/ \E c \in Conns : Connect(c, c)
    \/ \E c \in Conns : Disconnect(c)
    \/ \E c \in Conns, m \in CommandMessages : ProcessMessage(c, m)

SpecCommands == Init /\ [][NextCommands]_vars

\* Acknowledgements: connection 1 has streamed k well-formed frames (timestamp 1,
\* with IMU and intrinsics) into session 1, all written by the worker, and goes
\* on with frames that process_frame accepts and frames it fails on.
Streamed(k) == [i \in 1..k |-> 1]

InitAck ==
    \E k \in (AckEvery - MaxFrames)..(AckEvery - 1) :
        /\ phase = "running"
        /\ clock = 1
        /\ conn = [c \in Conns |->
                     IF c = 1 THEN [ClientConnection(1) EXCEPT !.is_streaming = TRUE,
                                                              !.frames_received = k]
                     ELSE NoConnection]
        /\ clients = [i \in ClientIds |-> IF i = 1 THEN 1 ELSE 0]
        /\ proc = [InitProc EXCEPT !.current_session = 1, !.session_path = 1,
                                   !.stats = [SessionStats(1) EXCEPT
                                                !.frame_count = k,
                                                !.latencies = [i \in 1..k |-> 0]],
                                   !.running = TRUE, !.imu_file = 1, !.rgb_txt_file = 1,
                                   !.intrinsics_saved = TRUE]
        /\ worker = [pc |-> "get", item |-> [path |-> 0, ts |-> 0]]
        /\ disk = [d \in SessionIds |->
                     IF d = 1 THEN [EmptyDir EXCEPT !.rgb_dir = TRUE,
                                                   !.imu_csv = Streamed(k),
                                                   !.rgb_txt = Streamed(k),
                                                   !.images = {1}, !.intrinsics = 1]
                     ELSE EmptyDir]
        /\ wait = NoWait
        /\ hist = [frames |-> 0, creates |-> 1, succ_count |-> k, prev_session |-> 0,
                   pause_cmd |-> [c \in Conns |-> FALSE],
                   succ_conn |-> [c \in Conns |-> IF c = 1 THEN k ELSE 0],
                   accepted |-> [i \in 1..k |-> Accepted(OkPayload)]]
        /\ last = Event("frame", 1, "true", {})
        /\ task = NoTask
        /\ val = NoValidation

AckMessages ==
    {m \in FrameMessages :
        /\ m.type = "absent" /\ m.has_frame
        /\ m.payload.b64_ok /\ m.payload.intr /\ m.payload.ts \in {0, 1}}

NextAck ==
    \/ \E m \in AckMessages : ProcessMessage(1, m)
    \/ WorkerGet
    \/ WorkerWrite

SpecAck == InitAck /\ [][NextAck]_vars

\* Streaming: two connections stream into the sessions at once, connection c
\* stamping its frames c, with and without IMU and intrinsics; sessions are
\* started; the worker writes the images, and a write may fail.
StreamMessages(c) ==
    {m \in FrameMessages :
        /\ m.type = "absent" /\ m.has_frame
        /\ m.payload.b64_ok /\ m.payload.ts = c /\ m.payload.imu \in {"ok", "empty"}}
    \cup {m \in ControlMessages : m.command = "start_session" /\ m.session_id = 0}

NextStream ==
    \/ Start
    \/ \E c \in Conns : Connect(c, c)
    \/ \E c \in Conns : \E m \in StreamMessages(c) : ProcessMessage(c, m)
    \/ WorkerGet
    \/ WorkerWrite
    \/ WorkerWriteFails

SpecStream == Init /\ [][NextStream]_vars

\* Latency: at second 2, connection 1 has streamed k well-formed frames into
\* session 1, the first j of them stamped 1 (a second late) and the others stamped
\* 2, all written by the worker, and goes on with frames of either stamp.
StampsStreamed(k, j) == [i \in 1..k |-> IF i <= j THEN 1 ELSE 2]

InitLatency ==
    \E k \in (LatencyWindow - MaxFrames + 1)..LatencyWindow : \E j \in {0, 1, 2, k} :
        /\ phase = "running"
        /\ clock = 2
        /\ conn = [c \in Conns |->
                     IF c = 1 THEN [ClientConnection(1) EXCEPT !.is_streaming = TRUE,
                                                              !.frames_received = k]
                     ELSE NoConnection]
        /\ clients = [i \in ClientIds |-> IF i = 1 THEN 1 ELSE 0]
        /\ proc = [InitProc EXCEPT
                      !.current_session = 1, !.session_path = 1,
                      !.stats = [SessionStats(1) EXCEPT
                                   !.frame_count = k,
                                   !.latencies =
                                      [i \in 1..k |->
                                         LatencyMs([ts |-> StampsStreamed(k, j)[i]], 2)]],
                      !.running = TRUE, !.imu_file = 1, !.rgb_txt_file = 1,
                      !.intrinsics_saved = TRUE]
        /\ worker = [pc |-> "get", item |-> [path |-> 0, ts |-> 0]]
        /\ disk = [d \in SessionIds |->
                     IF d = 1 THEN [EmptyDir EXCEPT
                                      !.rgb_dir = TRUE,
                                      !.imu_csv = StampsStreamed(k, j),
                                      !.rgb_txt = StampsStreamed(k, j),
                                      !.images = {StampsStreamed(k, j)[i] : i \in 1..k},
                                      !.intrinsics = StampsStreamed(k, j)[1]]
                     ELSE EmptyDir]
        /\ wait = NoWait
        /\ hist = [frames |-> 0, creates |-> 1, succ_count |-> k, prev_session |-> 0,
                   pause_cmd |-> [c \in Conns |-> FALSE],
                   succ_conn |-> [c \in Conns |-> IF c = 1 THEN k ELSE 0],
                   accepted |-> [i \in 1..k |->
                                   Accepted([OkPayload EXCEPT
                                               !.ts = StampsStreamed(k, j)[i]])]]
        /\ last = Event("frame", 1, "true", {})
        /\ task = NoTask
        /\ val = NoValidation

LatencyMessages ==
    {m \in FrameMessages :
        /\ m.type = "absent" /\ m.has_frame
        /\ m.payload.b64_ok /\ m.payload.intr /\ m.payload.imu = "ok"
        /\ m.payload.ts \in Timestamps}

NextLatency ==
    \/ \E m \in LatencyMessages : ProcessMessage(1, m)
    \/ WorkerGet
    \/ WorkerWrite

SpecLatency == InitLatency /\ [][NextLatency]_vars

\* The two threads: connection 1 streams well-formed frames, and the writer thread
\* runs between the steps of process_frame.
RaceMessages ==
    {m \in FrameMessages :
        /\ m.type = "absent" /\ m.has_frame
        /\ m.payload.b64_ok /\ m.payload.intr /\ m.payload.imu = "ok"
        /\ m.payload.ts \in Timestamps}

NextRace ==
    \/ Start
    \/ Connect(1, 1)
    \/ \E m \in RaceMessages : FrameEnqueue(1, m.payload)
    \/ FrameFinish
    \/ WorkerGet
    \/ WorkerWrite
    \/ WorkerWriteFails

SpecRace == Init /\ [][NextRace]_vars

\* Implicit sessions: no session is ever started by command.  Connection 1
\* streams frames (well-formed, undecodable, with a timestamp that is no number)
\* and pauses and resumes; connection 2 streams well-formed frames and ends the
\* session.
ImplicitMessages(c) ==
    IF c = 1
    THEN {Message("object", "absent", TRUE, "none", 0, pl) :
            pl \in {OkPayload, [OkPayload EXCEPT !.b64_ok = FALSE],
                    [OkPayload EXCEPT !.ts = 0]}}
         \cup {m \in ControlMessages :
                 m.command \in {"pause", "resume"} /\ m.session_id = 0}
    ELSE {Message("object", "absent", TRUE, "none", 0, OkPayload)}
         \cup {m \in ControlMessages :
                 m.command = "end_session" /\ m.session_id = 0}

NextImplicit ==
    \/ Start
    \/ \E c \in Conns : Connect(c, c)
    \/ \E c \in Conns : \E m \in ImplicitMessages(c) : ProcessMessage(c, m)
    \/ EndSessionReturn
    \/ WorkerGet
    \/ WorkerWrite

SpecImplicit == Init /\ [][NextImplicit]_vars

\* Sessions in turn: one connection streams well-formed frames while sessions are
\* started and ended and the clock moves on; the worker writes at its own pace.
TurnMessages ==
    {Message("object", "absent", TRUE, "none", 0, OkPayload)}
    \cup {m \in ControlMessages : m.command \in {"start_session", "end_session"}}

NextTurns ==
    \/ Start
    \/ Tick
    \/ Connect(1, 1)
    \/ \E m \in TurnMessages : ProcessMessage(1, m)
    \/ EndSessionReturn
    \/ WorkerGet
    \/ WorkerWrite

SpecTurns == Init /\ [][NextTurns]_vars

\* ---- validation of recorded sessions (validate_capture.py main ->
\* validate_session): one run over a directory, an add_error / add_warning /
\* add_info call being a step of its own

\* n frames a tenth of a second apart, the first at t0
Steady(t0, n) == [i \in 1..n |-> t0 + i - 1]

\* the orders frames are accepted in
FrameRuns ==
    {<<>>, <<10>>, <<10, 20, 15, 30>>, <<10, 20, 30, 40>>, <<90, 100>>,
     <<30, 20, 10>>, <<10, 15, 40, 70>>,
     Steady(10, 40), Steady(70, 40)}

\* process_frame for each frame of the run, up to the first that fails
RECURSIVE StreamAll(_, _)
StreamAll(w, arrival) ==
    IF arrival = <<>> THEN w
    ELSE LET r == ProcessFrame(w, [OkPayload EXCEPT !.ts = Head(arrival)],
                               Head(arrival))
         IN  IF r.ret THEN StreamAll(r.w, Tail(arrival)) ELSE r.w

\* The directory the session store leaves: create_session, a process_frame for
\* every frame of the run (each with IMU data and intrinsics), the writer thread
\* writing every queued image, end_session.
Recorded(arrival) ==
    LET w0 == [proc |-> InitProc, disk |-> [d \in SessionIds |-> EmptyDir]]
        w1 == StreamAll(CreateSession(w0, 1, 1), arrival)
        queue == w1.proc.save_queue
        w2 == [w1 EXCEPT !.disk[1].images = {queue[i].ts : i \in 1..Len(queue)},
                         !.proc.save_queue = <<>>]
    IN  EndSessionFinish(w2, GetStats(w2.proc)).disk[1]

\* a directory that holds a frame named 0.000000.jpg, made by hand
Copied(arrival) ==
    [EmptyDir EXCEPT !.rgb_dir = TRUE, !.imu_csv = arrival, !.rgb_txt = arrival,
                     !.images = {arrival[i] : i \in 1..Len(arrival)},
                     !.intrinsics = arrival[1]]

\* the directory with k more image files, their names not numbers
Littered(d, k) == [d EXCEPT !.images = @ \cup {-i : i \in 1..k}]

OddKinds == {"none", "last", "quarter", "second", "unreadable"}

ImuKinds == {"kept", "missing", "unreadable", "emptied", "cut", "late"}

IntrKinds == {"complete", "missing", "unreadable", "no_fx", "no_width", "wrong_size"}

TxtKinds == {"kept", "missing", "unreadable", "cut"}

OddImages(n, kind) ==
    (CASE kind = "last" -> {n - 1}
       [] kind = "quarter" -> {n \div 4}
       [] kind = "second" -> {1}
       [] OTHER -> {}) \cap 1..(n - 1)

ImuFile(rows, kind) ==
    [exists |-> kind # "missing", ok |-> kind # "unreadable",
     rows |-> CASE kind = "emptied" -> <<>>
                [] kind = "cut" -> IF rows = <<>> THEN rows ELSE <<Head(rows)>>
                [] kind = "late" -> [i \in 1..Len(rows) |-> rows[i] + 20]
                [] OTHER -> rows]

IntrFile(saved, kind) ==
    [exists |-> saved /\ kind # "missing", ok |-> kind # "unreadable",
     complete |-> kind \notin {"no_fx", "no_width"},
     matches |-> kind \notin {"no_width", "wrong_size"}]

TxtFile(rows, kind) ==
    [exists |-> kind # "missing", ok |-> kind # "unreadable",
     lines |-> IF kind = "cut" THEN Len(rows) + 1 ELSE Len(rows)]

\* the directory d with the frames' sizes and the content of its files
Found(d, arrival, odd, imu, intr, txt) ==
    [exists |-> TRUE, rgb_dir |-> d.rgb_dir, arrival |-> arrival, files |-> d.images,
     odd |-> OddImages(Cardinality(d.images), odd), readable |-> odd # "unreadable",
     imu |-> ImuFile(d.imu_csv, imu),
     intr |-> IntrFile(d.intrinsics # 0, intr),
     txt |-> TxtFile(d.rgb_txt, txt)]

Directories ==
    {[d |-> Recorded(run), arrival |-> run] : run \in FrameRuns}
    \cup {[d |-> Copied(<<0, 1, 26, 27>>), arrival |-> <<0, 1, 26, 27>>]}
    \cup {[d |-> Littered(Recorded(run), k), arrival |-> run] :
            run \in {<<>>, <<10>>, <<10, 20, 30, 40>>}, k \in 1..2}

Inputs ==
    {NoInput, [NoInput EXCEPT !.exists = TRUE]}
    \cup {Found(x.d, x.arrival, odd, imu, intr, txt) :
            x \in Directories, odd \in OddKinds, imu \in ImuKinds,
            intr \in IntrKinds, txt \in TxtKinds}

\* validate_session is called
ValidateBegin ==
    /\ val.pc = "none"
    /\ \E input \in Inputs :
          val' = [NoValidation EXCEPT !.pc = "exists", !.input = input]
    /\ UNCHANGED <<phase, clock, conn, clients, proc, worker, disk, wait, hist,
                   last, task>>

\* the next section's tests
ValidateSection ==
    /\ val.pc \notin {"none", "done"}
    /\ val.todo = <<>>
    /\ val' = Section(val)
    /\ UNCHANGED <<phase, clock, conn, clients, proc, worker, disk, wait, hist,
                   last, task>>

\* the next add_error, add_warning or add_info call of the section
ValidateRaise ==
    /\ val.todo # <<>>
    /\ val' = [val EXCEPT !.result = Raise(@, Head(val.todo)),
                          !.todo = Tail(@)]
    /\ UNCHANGED <<phase, clock, conn, clients, proc, worker, disk, wait, hist,
                   last, task>>

NextValidate ==
    \/ ValidateBegin
    \/ ValidateSection
    \/ ValidateRaise

SpecValidate == Init /\ [][NextValidate]_vars

\* the run has returned
Returned == val.pc = "done" /\ val.todo = <<>>

\* ================================================================ claims

\* ---- C1 (SpecStore)
\* C1: in every state with a current session, the session's frame_count equals the
\* number of process_frame calls of that session that returned True.
C1_FrameCountIsSuccessCount ==
    proc.stats.present => proc.stats.frame_count = hist.succ_count

\* ---- C2 (SpecProtocol)
FrameOf(c) == last'.op = "frame" /\ last'.c = c

\* no reply, nothing queued or stored, no counter moved
FrameIsDropped ==
    /\ last'.sent = {}
    /\ conn' = conn /\ proc' = proc /\ disk' = disk /\ wait' = wait

\* a frame of a connection that is not paused, with a session current, goes into
\* that session: no session is created, and a decoded frame is counted
FrameIsIngested(c) ==
    /\ last'.ret # "dropped"
    /\ proc'.current_session = proc.current_session
    /\ hist'.creates = hist.creates
    /\ last'.ret \in {"true", "false"} =>
          /\ conn'[c].frames_received = conn[c].frames_received + 1
          /\ proc'.stats.frame_count = proc.stats.frame_count + 1

ResumeRestores(c) ==
    /\ (last'.op = "resume" /\ last'.c = c) =>
          ~conn'[c].is_paused /\ proc' = proc /\ disk' = disk
    /\ (FrameOf(c) /\ ~conn[c].is_paused /\ proc.current_session # 0) =>
          FrameIsIngested(c)

\* C2 as stated: from a connection's pause command until its resume command every
\* data message of the connection is dropped: no reply, nothing buffered, and
\* frame_count and frames_received unchanged; after resume its frames go into the
\* current session again and no session is created.
C2_DroppedUntilResume ==
    [][\A c \in Conns :
          /\ (FrameOf(c) /\ hist.pause_cmd[c]) => FrameIsDropped
          /\ ResumeRestores(c)]_vars

\* C2 amended: the connection is paused from its pause command until its resume or
\* start_session command (or its disconnect); while it is paused every data message
\* of it is dropped; after resume its frames go into the current session again and
\* no session is created.
C2_DroppedWhilePaused ==
    [][\A c \in Conns :
          /\ (last'.op = "pause" /\ last'.c = c) => conn'[c].is_paused
          /\ (conn[c].is_paused /\ ~conn'[c].is_paused) =>
                last'.c = c /\ last'.op \in {"resume", "start_session", "disconnect"}
          /\ (FrameOf(c) /\ conn[c].is_paused) => FrameIsDropped
          /\ ResumeRestores(c)]_vars

\* a frame was dropped in mid-stream: the session has counted frames already
C2_Witness ==
    /\ last.op = "frame" /\ last.ret = "dropped"
    /\ proc.stats.present /\ proc.stats.frame_count > 0
    /\ conn[last.c].frames_received > 0

\* ---- C3 (SpecConnections)
\* C3: a step that disconnects c removes no other connection's entry from the
\* active set and leaves the session store and the capture directories as they
\* were.
C3_DisconnectRemovesOnlyItself ==
    [][\A c \in Conns :
          (last'.op = "disconnect" /\ last'.c = c) =>
              /\ \A i \in ClientIds : clients[i] # c => clients'[i] = clients[i]
              /\ proc' = proc /\ disk' = disk]_vars

\* ---- C4 (SpecStore)
\* C4: a create_session called while a session is current leaves the new session
\* with zero stats, the intrinsics flag cleared and its own open streams; and no
\* frame accepted afterwards adds a row to the logs of the session that was current
\* before the create.
C4_CreateFinalizesPrevious ==
    [][/\ (last'.op = "start_session" /\ proc.current_session # 0) =>
              /\ proc'.stats = SessionStats(proc'.current_session)
              /\ ~proc'.intrinsics_saved
              /\ proc'.imu_file = proc'.session_path
              /\ proc'.rgb_txt_file = proc'.session_path
       /\ (last'.op = "frame" /\ hist'.creates = hist.creates /\ hist.prev_session # 0) =>
              /\ disk'[hist.prev_session].rgb_txt = disk[hist.prev_session].rgb_txt
              /\ disk'[hist.prev_session].imu_csv = disk[hist.prev_session].imu_csv]_vars

\* ---- C5 (SpecShutdown)
\* C5: without a current session the store holds nothing to end (no path, no
\* stats, no open stream, an empty writer queue), and an end_session call then
\* returns at once, leaving the store and the capture directories as they were.
C5_EndWithoutSessionIsNoOp ==
    /\ [](proc.current_session = 0 =>
             /\ proc.session_path = 0 /\ ~proc.stats.present
             /\ proc.imu_file = 0 /\ proc.rgb_txt_file = 0
             /\ proc.save_queue = <<>>)
    /\ [][(last'.op = "end_session" /\ proc.current_session = 0) =>
             /\ last'.ret = "no_session"
             /\ ~wait'.active
             /\ proc' = proc /\ disk' = disk]_vars

\* end_session found no session, after an earlier end_session had ended one
C5_Witness ==
    /\ last.op = "end_session" /\ last.ret = "no_session"
    /\ \E d \in SessionIds : disk[d].session_stats >= 1

\* ---- C6 (SpecShutdown)
\* C6: a step in which end_session returns for a current session leaves both
\* streams closed, the session's frame_count in the stats record of the session's
\* directory, and no current session, path or stats.
C6_EndFinalizesSession ==
    [][last'.ret = "ended" =>
          /\ proc.session_path # 0
          /\ proc'.imu_file = 0 /\ proc'.rgb_txt_file = 0
          /\ disk'[proc.session_path].session_stats = proc.stats.frame_count
          /\ proc'.current_session = 0 /\ proc'.session_path = 0
          /\ proc'.stats = NoStats]_vars

\* end_session returned for a session that had counted frames, after waiting
C6_Witness ==
    /\ last.ret = "ended"
    /\ proc.current_session = 0
    /\ \E d \in SessionIds : disk[d].session_stats >= 1 /\ disk[d].images # {}

\* ---- C7 (SpecShutdown)
\* C7: an end_session call that waits for the queue can always still return: the
\* queue is empty or the worker is there to empty it.
C7_EndWaitIsBounded ==
    wait.active => (proc.save_queue = <<>> \/ worker.pc \in {"get", "write"})

\* ---- C8 (SpecShutdown)
\* C8: stop is never left waiting on a queue that nobody empties, and once it has
\* returned no session is current.
C8_StopCompletes ==
    /\ (phase = "join" /\ worker.pc = "exited") => (~wait.active \/ proc.save_queue = <<>>)
    /\ phase = "stopped" => proc.current_session = 0

\* ---- C9 (SpecShutdown)
\* C9: when the worker has exited, every image that was queued has been taken and
\* written: the queue is empty.
C9_WorkerExitsAfterDrain ==
    worker.pc = "exited" => proc.save_queue = <<>>

\* ---- C10 (SpecProtocol)
\* C10: a step that handles a body that is no JSON object sends exactly one error
\* reply, to the sender, and changes nothing else: the connections and their
\* flags and counters, the active set, the store, the directories.
C10_MalformedOnlyErrorReply ==
    [][\A c \in Conns :
          (last'.op = "malformed" /\ last'.c = c) =>
              /\ last'.sent = {Reply(c, "error")}
              /\ conn' = conn /\ conn'[c].open
              /\ clients' = clients
              /\ proc' = proc /\ disk' = disk /\ wait' = wait /\ phase' = phase]_vars

\* a malformed body arrived on a streaming connection
C10_Witness ==
    /\ last.op = "malformed"
    /\ conn[last.c].open /\ conn[last.c].is_streaming
    /\ conn[last.c].frames_received > 0

\* ---- C11 (SpecCommands)
\* C11: a step that handles a control message whose command is none of the six
\* known ones sends one error reply to the sender and changes nothing else: the
\* connections (the sender stays open), the active set, the store, the directories.
C11_UnknownCommandOnlyErrorReply ==
    [][\A c \in Conns :
          (last'.op = "unknown_command" /\ last'.c = c) =>
              /\ last'.sent = {Reply(c, "error")}
              /\ conn' = conn /\ conn'[c].open
              /\ clients' = clients
              /\ proc' = proc /\ disk' = disk /\ wait' = wait /\ phase' = phase]_vars

\* an unknown command arrived on a paused connection in mid-stream
C11_Witness ==
    /\ last.op = "unknown_command"
    /\ conn[last.c].open /\ conn[last.c].is_paused
    /\ proc.current_session # 0 /\ proc.stats.frame_count > 0

\* ---- C12 (SpecProtocol)
UndecodableFrameOf(c) == FrameOf(c) /\ last'.ret = "decode_error"

\* C12 as stated: a step that handles a data message whose payload cannot be
\* decoded sends nothing and leaves the session stats, the logs and the other
\* files, the writer queue and the connection's frames_received as they were.
C12_UndecodableChangesNothing ==
    [][\A c \in Conns :
          UndecodableFrameOf(c) =>
              /\ last'.sent = {}
              /\ conn'[c].frames_received = conn[c].frames_received
              /\ proc'.stats = proc.stats
              /\ proc'.save_queue = proc.save_queue
              /\ disk' = disk]_vars

\* C12 amended: such a step sends nothing and leaves frames_received and the
\* writer queue as they were, and a current session's stats and files as they
\* were; its only effects are to mark a connection that was not yet streaming as
\* streaming and, when that connection finds no session current, to create a
\* session (zero frame_count); and the next decodable data message of the
\* connection is counted and queued.
C12_UndecodableOnlyOpensStream ==
    [][\A c \in Conns :
          /\ UndecodableFrameOf(c) =>
                /\ last'.sent = {}
                /\ conn' = [conn EXCEPT ![c].is_streaming = TRUE]
                /\ proc'.save_queue = proc.save_queue
                /\ proc.current_session # 0 => proc' = proc /\ disk' = disk
                /\ (proc' # proc \/ disk' # disk) =>
                      /\ ~conn[c].is_streaming
                      /\ proc'.current_session # 0
                      /\ proc'.stats = SessionStats(proc'.current_session)
          /\ (/\ last.op = "frame" /\ last.ret = "decode_error" /\ last.c = c
              /\ FrameOf(c) /\ ~UndecodableFrameOf(c)) =>
                /\ last'.ret = "true"
                /\ conn'[c].frames_received = conn[c].frames_received + 1
                /\ Len(proc'.save_queue) = Len(proc.save_queue) + 1
                /\ proc'.stats.frame_count =
                      (IF proc.stats.present THEN proc.stats.frame_count ELSE 0) + 1]_vars

\* an undecodable frame arrived in mid-stream
C12_Witness ==
    /\ last.op = "frame" /\ last.ret = "decode_error"
    /\ proc.stats.present /\ proc.stats.frame_count > 0
    /\ conn[last.c].frames_received > 0

\* ---- C14 (SpecProtocol)
\* C14: in every state, a connection that is paused is streaming.
C14_PausedOnlyWhenStreaming ==
    \A c \in Conns : conn[c].is_paused => conn[c].is_streaming

\* ---- C13 (SpecAck)
\* C13: a step that handles a data message of connection c sends c an
\* acknowledgement exactly when the frame was processed with success and c's
\* count of such frames has thereby reached a multiple of AckEvery.
C13_AckOnTenthSuccess ==
    [][\A c \in Conns :
          FrameOf(c) =>
              (Reply(c, "ack") \in last'.sent <=>
                  /\ hist'.succ_conn[c] = hist.succ_conn[c] + 1
                  /\ hist'.succ_conn[c] % AckEvery = 0)]_vars

\* ---- C15 (SpecCommands)
\* C15: a step that handles get_status or ping sends the sender one reply (a status
\* message, or the pong acknowledgement) and changes nothing: every connection's
\* flags and counters, the active set, the current session, its stats, the writer
\* queue and the directories are as before.
C15_StatusAndPingOnlyReply ==
    [][\A c \in Conns :
          (last'.op \in {"get_status", "ping"} /\ last'.c = c) =>
              /\ last'.sent =
                    {Reply(c, IF last'.op = "get_status" THEN "status" ELSE "ack")}
              /\ conn' = conn
              /\ clients' = clients
              /\ proc' = proc /\ disk' = disk /\ wait' = wait /\ phase' = phase]_vars

\* get_status or ping arrived on a connection that had not streamed, while another
\* connection's session held queued images
C15_Witness ==
    /\ last.op \in {"get_status", "ping"}
    /\ conn[last.c].open /\ ~conn[last.c].is_streaming
    /\ proc.current_session # 0 /\ proc.save_queue # <<>>

\* ---- C16 (SpecCommands)
\* C16: a step that handles a JSON object tagged type control is not a frame
\* ingestion, and a step that handles an object as a data message handles one that
\* carries a "frame" key.
C16_ClassifiedByTypeAndContent ==
    [][\A c \in Conns, m \in CommandMessages :
          (m.body = "object" /\ ProcessMessage(c, m)) =>
              /\ m.type = "control" => last'.op # "frame"
              /\ last'.op = "frame" => m.has_frame]_vars

\* ---- C17 (SpecStream)
\* the accepted frames of the current session that carried intrinsics
WithIntrinsics == {i \in 1..Len(hist.accepted) : hist.accepted[i].intr}

FirstWithIntrinsics == CHOOSE i \in WithIntrinsics : \A j \in WithIntrinsics : i <= j

\* C17: while a session is current, its intrinsics record is not saved as long as
\* no accepted frame of the session carried intrinsics, and afterwards it holds
\* the intrinsics of the first such frame; and the only step that changes an
\* intrinsics record on disk is an accepted frame writing the current session's
\* record when the session has none saved yet.
C17_IntrinsicsSavedOnce ==
    /\ [](proc.current_session # 0 =>
             IF WithIntrinsics = {} THEN ~proc.intrinsics_saved
             ELSE /\ proc.intrinsics_saved
                  /\ disk[proc.session_path].intrinsics =
                        hist.accepted[FirstWithIntrinsics].ts)
    /\ [][\A d \in SessionIds :
             disk'[d].intrinsics # disk[d].intrinsics =>
                 /\ last'.op = "frame" /\ last'.ret = "true"
                 /\ d = proc'.session_path
                 /\ ~(proc.intrinsics_saved /\ hist'.creates = hist.creates)]_vars

\* a later frame of the session carried other intrinsics, and the record is the
\* first frame's
C17_Witness ==
    /\ proc.current_session # 0 /\ proc.intrinsics_saved
    /\ \E i, j \in WithIntrinsics :
          /\ i < j /\ hist.accepted[i].ts # hist.accepted[j].ts
          /\ disk[proc.session_path].intrinsics = hist.accepted[i].ts

\* ---- C18 (SpecStream)
HasImu(a) == a.imu

TimestampsOf(frames) == [i \in 1..Len(frames) |-> frames[i].ts]

\* C18: while a session is current, its frame-index log lists the frames accepted
\* into it, in the order of their acceptance, and its IMU log lists those of them
\* that carried an IMU record, in the same order.
C18_LogsInAcceptanceOrder ==
    proc.current_session # 0 =>
        /\ disk[proc.session_path].rgb_txt = TimestampsOf(hist.accepted)
        /\ disk[proc.session_path].imu_csv = TimestampsOf(SelectSeq(hist.accepted, HasImu))

\* frames of the two connections alternated in one session
C18_Witness ==
    /\ proc.current_session # 0
    /\ disk[proc.session_path].rgb_txt = <<2, 1>>
    /\ disk[proc.session_path].imu_csv = <<2, 1>>
    /\ conn[1].frames_received = 1 /\ conn[2].frames_received = 1

\* ---- C19 (SpecStream)
StreamFrame(c) ==
    Message("object", "absent", TRUE, "none", 0, [OkPayload EXCEPT !.ts = c])

\* C19: a frame of an open, unpaused connection can be handled whenever the event
\* loop is free and a session is current, whatever the writer queue holds and
\* wherever the worker is; and the step that accepts a frame puts its image at
\* the end of the queue, moves neither the worker nor any image file.
C19_AppendNeverWaitsForDisk ==
    /\ [](\A c \in Conns :
             (/\ LoopFree /\ conn[c].open /\ ~conn[c].is_paused
              /\ FrameRoom /\ proc.current_session # 0) =>
                 ENABLED ProcessMessage(c, StreamFrame(c)))
    /\ [][\A c \in Conns :
             (FrameOf(c) /\ last'.ret = "true") =>
                 /\ proc'.save_queue =
                       Append(proc.save_queue,
                              [path |-> proc'.session_path,
                               ts |-> hist'.accepted[Len(hist'.accepted)].ts])
                 /\ worker' = worker
                 /\ \A d \in SessionIds : disk'[d].images = disk[d].images]_vars

\* a frame was accepted, and its image queued, while the worker was in the write
\* of an earlier image
C19_Witness ==
    /\ last.op = "frame" /\ last.ret = "true"
    /\ Len(proc.save_queue) >= 1
    /\ worker.pc = "write"

\* ---- C20 (SpecStream)
\* C20: a step in which an image write fails leaves the worker, while it is
\* running, at its next queue.get; the queue, the session's frame_count and the
\* rest of the store, and every file on disk are as before.
C20_FailedWriteLosesOneImage ==
    [][last'.op = "worker_write_error" =>
          /\ proc.running => worker'.pc = "get"
          /\ proc' = proc
          /\ disk' = disk
          /\ conn' = conn /\ wait' = wait /\ phase' = phase]_vars

\* a write failed with another image queued and two frames counted
C20_Witness ==
    /\ last.op = "worker_write_error"
    /\ proc.save_queue # <<>>
    /\ proc.stats.present /\ proc.stats.frame_count >= 2

\* ---- C30 (SpecStream)
\* the rows a frame step added to a log of the session current after it (a session
\* created by the step starts with empty logs)
RowsAdded(before, after) ==
    Len(after) - (IF hist'.creates = hist.creates THEN Len(before) ELSE 0)

\* C30: a step in which process_frame returns True adds exactly one row to the
\* session's IMU log and exactly one row to its frame-index log.
C30_OneRowInEachLog ==
    [][\A c \in Conns :
          (FrameOf(c) /\ last'.ret = "true") =>
              LET sp == proc'.session_path
              IN  /\ RowsAdded(disk[sp].rgb_txt, disk'[sp].rgb_txt) = 1
                  /\ RowsAdded(disk[sp].imu_csv, disk'[sp].imu_csv) = 1]_vars

\* ---- C23 (SpecStore)
\* C23: the list of sessions is strictly descending by id, and after a step in
\* which end_session returns for a current session, that session is the first
\* element of the list.
C23_JustEndedSessionIsFirst ==
    /\ [](\A i, j \in 1..Len(ListSessions(disk)) :
             i < j => ListSessions(disk)[i] > ListSessions(disk)[j])
    /\ [][last'.ret = "ended" =>
             /\ ListSessions(disk') # <<>>
             /\ Head(ListSessions(disk')) = proc.current_session]_vars

\* ---- C21 (SpecLatency)
\* the newest n latency samples of the current session
Newest(n) ==
    [i \in 1..n |-> proc.stats.latencies[Len(proc.stats.latencies) - n + i]]

\* C21: the reported average latency of a session is the mean of its newest
\* samples, LatencyWindow of them at most: with more samples stored, the oldest
\* one has no influence, and when the newest LatencyWindow samples are all zero the
\* average is zero whatever the older ones are.
C21_AverageOfNewestSamples ==
    proc.stats.present =>
        LET lat == proc.stats.latencies
            avg == AvgLatencyMs(proc.stats)
            n   == IF Len(lat) > LatencyWindow THEN LatencyWindow ELSE Len(lat)
        IN  /\ lat # <<>> => avg.den = n /\ avg.num = Sum(Newest(n))
            /\ Len(lat) > LatencyWindow =>
                  avg = AvgLatencyMs([proc.stats EXCEPT !.latencies = Tail(lat)])
            /\ (lat # <<>> /\ \A i \in 1..n : Newest(n)[i] = 0) => avg.num = 0

\* more than LatencyWindow samples, the oldest an outlier outside the window, and
\* the average unmoved by it
C21_Witness ==
    /\ proc.stats.present
    /\ Len(proc.stats.latencies) > LatencyWindow
    /\ proc.stats.latencies[1] = 1000
    /\ AvgLatencyMs(proc.stats).num = 0

\* ---- C22 (SpecLatency)
\* C22: a session stores at most LatencyWindow latency samples.
C22_LatencyWindowBounded ==
    Len(proc.stats.latencies) <= LatencyWindow

\* ---- C29 (SpecRace)
\* C29: when the worker takes an image from the queue to write it, the IMU log and
\* the frame-index log of the image's session hold the row of its frame.
C29_RowsBeforeImageWrite ==
    [][last'.op = "worker_get" =>
          LET it == worker'.item
          IN  /\ \E i \in 1..Len(disk[it.path].rgb_txt) : disk[it.path].rgb_txt[i] = it.ts
              /\ \E i \in 1..Len(disk[it.path].imu_csv) : disk[it.path].imu_csv[i] = it.ts]_vars

\* ---- C24 (SpecValidate)
RECURSIVE Penalties(_)
Penalties(issues) ==
    IF issues = <<>> THEN 0 ELSE Head(issues).penalty + Penalties(Tail(issues))

\* C24: the quality score is 100 when the run begins and within 0..100 at every
\* point of it, and each error or warning raised takes its penalty off the score,
\* the result floored at 0.
C24_ScoreWithinRange ==
    /\ [](val.pc = "exists" => val.result.quality_score = 100)
    /\ [](val.pc # "none" => val.result.quality_score \in 0..100)
    /\ [][val.todo # <<>> =>
            LET left == val.result.quality_score - Head(val.todo).penalty
            IN  val'.result.quality_score = IF left >= 0 THEN left ELSE 0]_vars

\* a run has returned with penalties of more than 100 in all, the score at 0
C24_Witness ==
    /\ Returned
    /\ Penalties(val.result.errors) + Penalties(val.result.warnings) > 100
    /\ Len(val.result.errors) > 1
    /\ val.result.warnings # <<>>
    /\ val.result.quality_score = 0

\* ---- C25 (SpecValidate)
\* C25: at every point of a run is_valid holds exactly when no error has been
\* recorded, whatever the number of warnings and notes.
C25_ValidIffNoErrors ==
    val.pc # "none" => (val.result.is_valid <=> val.result.errors = <<>>)

\* a run has returned valid with three warnings or more and a note
C25_Witness ==
    /\ Returned
    /\ val.result.is_valid
    /\ Len(val.result.warnings) >= 3
    /\ val.result.info # <<>>

\* ---- C26 (SpecValidate)
\* the issues of the list that carry the tag
Count(issues, tag) == Len(SelectSeq(issues, LAMBDA issue : issue.tag = tag))

\* C26: a run that reaches the monotonicity check reports exactly one
\* monotonicity error when the frames' timestamps, in the order the frames were
\* recorded, contain a decrease, and none when they never decrease.
C26_OneMonotonicityError ==
    Returned /\ Len(val.timestamps) >= 2 =>
        LET arrival == val.input.arrival
            decreases == \E i \in 1..(Len(arrival) - 1) : arrival[i] > arrival[i + 1]
        IN  Count(val.result.errors, "not_monotonic") = IF decreases THEN 1 ELSE 0

GoodSession(input) ==
    /\ \E t0 \in 1..100 : input.arrival = Steady(t0, 40)
    /\ input.exists /\ input.rgb_dir
    /\ input.files = {input.arrival[i] : i \in 1..40}
    /\ input.odd = {} /\ input.readable
    /\ input.imu = [exists |-> TRUE, ok |-> TRUE, rows |-> input.arrival]
    /\ input.intr = [exists |-> TRUE, ok |-> TRUE, complete |-> TRUE, matches |-> TRUE]
    /\ input.txt = [exists |-> TRUE, ok |-> TRUE, lines |-> 40]

\* C28: a session recorded by the store with 40 frames at 100 ms spacing, one
\* image size, complete matching intrinsics, an IMU row and a frame-index row for
\* every frame validates with no error, no warning and a score of 100.
C28_RoundTripIsClean ==
    Returned /\ GoodSession(val.input) =>
        /\ val.result.errors = <<>>
        /\ val.result.warnings = <<>>
        /\ val.result.quality_score = 100

\* ---- C32 (SpecValidate)
\* C32: over a session directory whose image directory is absent or holds no
\* image, the run records at most one error and nothing else at any point, and
\* returns with exactly one error, of penalty 100, a score of 0 and is_valid
\* false.
C32_TerminalError ==
    val.pc # "none" /\ val.input.exists
      /\ (~val.input.rgb_dir \/ val.input.files = {}) =>
        /\ Len(val.result.errors) <= 1
        /\ val.result.warnings = <<>> /\ val.result.info = <<>>
        /\ Returned =>
              /\ Len(val.result.errors) = 1
              /\ val.result.errors[1].penalty = 100
              /\ val.result.quality_score = 0
              /\ ~val.result.is_valid

\* a run over an image directory with no image and no IMU, intrinsics or
\* frame-index file has returned with its one error
C32_Witness ==
    /\ Returned
    /\ val.input.rgb_dir /\ val.input.files = {}
    /\ ~val.input.imu.exists /\ ~val.input.intr.exists /\ ~val.input.txt.exists
    /\ Len(val.result.errors) = 1
    /\ val.result.quality_score = 0

\* ---- C33 (SpecValidate)
\* the images whose name is a number
Parsed(files) == {f \in files : f >= 0}

\* C33: once the frames are listed frame_count is the number of image files,
\* those with unparsable names included; no timestamp of the list the temporal
\* checks use comes from such a file; and with fewer than two parsed timestamps
\* the run ends on the timestamp error, with neither a duration, a gap nor a
\* monotonicity issue.
C33_UnparsableNamesOnlyCounted ==
    val.pc \notin {"none", "exists", "frames"} /\ val.input.rgb_dir =>
        /\ val.result.frame_count = Cardinality(val.input.files)
        /\ \A i \in 1..Len(val.timestamps) :
              val.timestamps[i] \in Parsed(val.input.files)
        /\ Len(val.timestamps) <= Cardinality(Parsed(val.input.files))
        /\ (Returned /\ val.input.files # {}
               /\ Cardinality(Parsed(val.input.files)) < 2) =>
              /\ Count(val.result.errors, "no_timestamps") = 1
              /\ val.result.errors[Len(val.result.errors)].tag = "no_timestamps"
              /\ Count(val.result.errors, "too_short") = 0
              /\ Count(val.result.errors, "not_monotonic") = 0
              /\ val.result.warnings = <<>>

\* a run over four numbered frames and two files with other names has returned:
\* six frames counted, four timestamps used
C33_Witness ==
    /\ Returned
    /\ val.input.files = {10, 20, 30, 40, -1, -2}
    /\ val.result.frame_count = 6
    /\ val.timestamps = <<10, 20, 30, 40>>
    /\ val.result.duration = 30

\* ---- C40 (SpecValidate)
\* C40: the list the temporal checks use holds the timestamp of every image
\* whose name is a number, the one named 0.0 included.
C40_EveryParsedNameIsUsed ==
    val.pc \notin {"none", "exists", "frames", "timestamps"} /\ val.input.rgb_dir =>
        \A f \in Parsed(val.input.files) :
            \E i \in 1..Len(val.timestamps) : val.timestamps[i] = f

\* ---- C31 (SpecImplicit)
\* C31: every data message for which process_frame is called leaves a session
\* current, its directory made and its statistics begun; when none was current
\* before, one has been created by the message; and a frame that process_frame
\* accepts is counted, queued and indexed in that session.
C31_FrameCreatesMissingSession ==
    [][last'.op = "frame" /\ last'.ret \in {"true", "false"} =>
          LET sp == proc'.session_path
          IN  /\ sp # 0
              /\ proc'.current_session = sp
              /\ disk'[sp].rgb_dir
              /\ proc'.stats.present /\ proc'.stats.session_id = sp
              /\ proc.current_session = 0 =>
                    /\ hist'.creates = hist.creates + 1
                    /\ proc'.stats.frame_count = 1
              /\ last'.ret = "true" =>
                    /\ proc'.save_queue # <<>>
                    /\ proc'.save_queue[Len(proc'.save_queue)].path = sp
                    /\ disk'[sp].rgb_txt # <<>>
                    /\ proc'.stats.frame_count >= 1]_vars

\* connection 1, streaming since its first frame, has had its second frame
\* accepted into a second session: connection 2 had ended the first
C31_Witness ==
    /\ last.op = "frame" /\ last.c = 1 /\ last.ret = "true"
    /\ hist.succ_conn[1] = 2
    /\ hist.creates = 2
    /\ proc.current_session # 0
    /\ proc.stats.frame_count = 1

\* ---- C34 (SpecConnections)
\* C34: in every state each open connection is the one registered under its
\* client id, each registered entry is an open connection with that id, and no
\* disconnect has failed on a missing entry.
C34_ActiveSetIsLiveConnections ==
    /\ \A c \in Conns : conn[c].open => clients[conn[c].client_id] = c
    /\ \A i \in ClientIds :
          clients[i] # 0 => conn[clients[i]].open /\ conn[clients[i]].client_id = i
    /\ last.op = "disconnect" => last.ret # "KeyError"

\* ---- C35 (SpecStore)
\* C35: when end_session returns having ended a session, with the worker
\* running, the stats record of that session is written and the worker is not
\* in the middle of writing one of its images.
C35_NoWriteInFlightAfterEnd ==
    [][last'.op = "end_session" /\ last'.ret = "ended" /\ proc.running =>
          LET sp == proc.session_path
          IN  /\ disk'[sp].session_stats # -1
              /\ ~(worker'.pc = "write" /\ worker'.item.path = sp)]_vars

\* ---- C36 (SpecStore)
\* C36: a data message handled while a session is current either has its image
\* queued and one row added to the session's frame-index log (process_frame
\* returned True), or leaves the queue, the directories and the statistics as
\* they were (it returned False).
C36_AppendIsAllOrNothing ==
    [][last'.op = "frame" /\ proc.current_session # 0 =>
          LET sp == proc.session_path
          IN  /\ last'.ret = "true" =>
                    /\ Len(proc'.save_queue) = Len(proc.save_queue) + 1
                    /\ Len(disk'[sp].rgb_txt) = Len(disk[sp].rgb_txt) + 1
              /\ last'.ret = "false" =>
                    /\ proc'.save_queue = proc.save_queue
                    /\ disk' = disk
                    /\ proc'.stats = proc.stats]_vars

\* ---- C37 (SpecStore)
\* C37: a step that creates a session, by command or by a frame that finds none,
\* leaves every directory that existed before it as it was: its logs, images,
\* intrinsics and stats record.
C37_CreateLeavesEarlierSessions ==
    [][hist'.creates = hist.creates + 1 =>
          \A d \in SessionIds : disk[d].rgb_dir =>
              /\ disk'[d].session_stats = disk[d].session_stats
              /\ disk'[d].intrinsics = disk[d].intrinsics
              /\ \A i \in 1..Len(disk[d].rgb_txt) :
                    i <= Len(disk'[d].rgb_txt)
                      /\ disk'[d].rgb_txt[i] = disk[d].rgb_txt[i]
              /\ \A i \in 1..Len(disk[d].imu_csv) :
                    i <= Len(disk'[d].imu_csv)
                      /\ disk'[d].imu_csv[i] = disk[d].imu_csv[i]]_vars

\* ---- C38 (SpecTurns)
\* C38: the image of an accepted frame is queued with the directory of the
\* session current at that moment; the queue's entries are not changed while
\* they wait; the worker takes the oldest entry as it is and writes the image
\* into that entry's directory and no other, whatever session is current then.
C38_ImageLandsInItsSession ==
    /\ [][last'.op = "frame" /\ last'.ret = "true" =>
            /\ proc'.save_queue # <<>>
            /\ proc'.save_queue[Len(proc'.save_queue)].path = proc'.current_session
            /\ SubSeq(proc'.save_queue, 1, Len(proc'.save_queue) - 1)
                   = proc.save_queue]_vars
    /\ [][last'.op \notin {"frame", "worker_get"} =>
            proc'.save_queue = proc.save_queue]_vars
    /\ [][last'.op = "worker_get" =>
            /\ worker'.item = Head(proc.save_queue)
            /\ proc'.save_queue = Tail(proc.save_queue)]_vars
    /\ [][last'.op = "worker_write" =>
            \A d \in SessionIds :
                disk'[d].images =
                    IF d = worker.item.path
                    THEN disk[d].images \cup {worker.item.ts}
                    ELSE disk[d].images]_vars

\* the only frame handled was accepted into one session, and its image has just
\* been written there while another session, still empty, is current
C38_Witness ==
    /\ last.op = "worker_write"
    /\ hist.frames = 1
    /\ proc.current_session # 0
    /\ disk[proc.current_session].images = {}
    /\ disk[proc.current_session].rgb_txt = <<>>
    /\ \E d \in SessionIds \ {proc.current_session} :
          disk[d].images # {} /\ disk[d].rgb_txt # <<>>

\* ---- C39 (SpecProtocol)
\* C39: while the end_session command of one connection waits for the writer
\* queue to empty, a message of any other open connection can be handled.
C39_OthersServedDuringDrain ==
    \A c \in Conns :
        (wait.active /\ wait.caller # 0 /\ c # wait.caller /\ conn[c].open) =>
            ENABLED (\E m \in ProtocolMessages : ProcessMessage(c, m))

====
